---- MODULE Spec2Model ----
(***************************************************************************)
(* Model of igviz.plot (src/igviz/igviz.py): the layout step, the scatter  *)
(* trace builder and the figure assembler, run on a caller-owned networkx  *)
(* graph that plot mutates in place.                                       *)
(*                                                                         *)
(* Python values are dynamically typed; a value that can sit next to a     *)
(* value of another type (None beside a coordinate, a colour string beside *)
(* an attribute value, a position beside a number in a node's dict) is a   *)
(* tagged record.  Coordinates are fixed-point numbers on a grid on which  *)
(* the midpoint of two coordinates is exact.                               *)
(***************************************************************************)
EXTENDS Integers, Sequences, FiniteSets, TLC

VARIABLES G, family, pc, args, branch, node_trace, edge_trace, middle_node_trace, fig, err

vars == <<G, family, pc, args, branch, node_trace, edge_trace, middle_node_trace, fig, err>>

\* ---------------------------------------------------------------- bounds
MaxNodes == 2
MaxEdges == 2

\* ------------------------------------------------------- python values
NoneV == [t |-> "None", i |-> 0, j |-> 0, s |-> ""]
IntV(n) == [t |-> "int", i |-> n, j |-> 0, s |-> ""]
StrV(str) == [t |-> "str", i |-> 0, j |-> 0, s |-> str]
TupleV(x, y) == [t |-> "tuple", i |-> x, j |-> y, s |-> ""]
ListV(seq) == [t |-> "list", items |-> seq]

\* Python's str() of the values the model formats into hover text.
PyStr(v) ==
    CASE v.t = "int" -> ToString(v.i)
      [] v.t = "str" -> v.s
      [] v.t = "None" -> "None"
      [] OTHER -> "(" \o ToString(v.i) \o ", " \o ToString(v.j) \o ")"

\* ---------------------------------------------------------------- graph
\* G.kind is the networkx class; G.nodes the node ids in iteration order;
\* G.data[n] the attribute dict of node n (a function on the names it holds);
\* G.edges what G.edges(data=True) yields, in order: [u, v, d] with d the
\* edge's attribute dict as a sequence of [k, v] items in insertion order.
GraphKinds == {"Graph", "DiGraph", "MultiGraph", "MultiDiGraph"}

\* A variant of IsDirected that knows the DiGraph class alone.
IsDirected_OnlyDiGraph(g) == g.kind = "DiGraph"

IsDirected(g) == g.kind \in {"DiGraph", "MultiDiGraph"}
IsMulti(kind) == kind \in {"MultiGraph", "MultiDiGraph"}

Range(seq) == {seq[k] : k \in 1..Len(seq)}

\* G.degree(node): every edge end at the node counts, a self-loop twice.
RECURSIVE DegreeUpTo(_, _, _)
DegreeUpTo(g, node, k) ==
    IF k = 0 THEN 0
    ELSE DegreeUpTo(g, node, k - 1)
         + (IF g.edges[k].u = node THEN 1 ELSE 0)
         + (IF g.edges[k].v = node THEN 1 ELSE 0)

Degree(g, node) == DegreeUpTo(g, node, Len(g.edges))

HasAttr(g, node, name) == name \in DOMAIN g.data[node]

\* nx.get_node_attributes(G, name): the nodes that hold the attribute.
get_node_attributes(g, name) == {n \in Range(g.nodes) : HasAttr(g, n, name)}

\* ------------------------------------------------------------ errors
NoErr == [type |-> "", key |-> "", node |-> 0]
KeyError(key, node) == [type |-> "KeyError", key |-> key, node |-> node]

\* ------------------------------------------------------- _apply_layout
layout_functions == {"random", "circular", "kamada", "planar", "spring", "spectral", "spiral"}

\* Two placements of the nodes, on a grid of even coordinates.
PlacementA(nodes) == [n \in nodes |-> TupleV(2 * n, 0)]
PlacementB(nodes) == [n \in nodes |-> TupleV(0, 2 * n)]

\* What a networkx layout function returns: a dict giving every node of the
\* graph a position.  random_layout draws the positions, so one call may
\* return either placement; the other layouts compute one placement.
LayoutResults(g, name) ==
    IF name = "random"
    THEN {PlacementA(Range(g.nodes)), PlacementB(Range(g.nodes))}
    ELSE {PlacementA(Range(g.nodes))}

\* A variant of set_node_attributes that replaces the node's dict.
set_node_attributes_Clobber(g, values, name) ==
    [g EXCEPT !.data = [n \in DOMAIN g.data |->
        IF n \in DOMAIN values THEN [k \in {name} |-> values[n]] ELSE g.data[n]]]

\* nx.set_node_attributes(G, values, name) for a dict of values.
set_node_attributes(g, values, name) ==
    [g EXCEPT !.data = [n \in DOMAIN g.data |->
        IF n \in DOMAIN values
        THEN [k \in DOMAIN g.data[n] \cup {name} |->
                 IF k = name THEN values[n] ELSE g.data[n][k]]
        ELSE g.data[n]]]

\* A variant of _apply_layout that falls back to the random layout.
apply_layout_Fallback(g, layout) ==
    {[G |-> [g EXCEPT !.data = [n \in DOMAIN g.data |->
                [k \in DOMAIN g.data[n] \cup {"pos"} |->
                    IF k = "pos" THEN pos_dict[n] ELSE g.data[n][k]]]],
      err |-> NoErr] :
        pos_dict \in LayoutResults(g, IF layout \in layout_functions THEN layout ELSE "random")}

\* _apply_layout(G, layout): the outcomes [G, err] of the call.
apply_layout(g, layout) ==
    IF layout \notin layout_functions
    THEN {[G |-> g, err |-> KeyError(layout, 0)]}
    ELSE {[G |-> set_node_attributes(g, pos_dict, "pos"), err |-> NoErr] :
             pos_dict \in LayoutResults(g, layout)}

\* Python truth of the layout argument: None and "" are false.
Truthy(v) == v.t = "str" /\ v.s # ""

\* A variant of the branch of lines 98-101 without the test of line 100.
LayoutBranch_NoSkip(g, layout) == IF Truthy(layout) THEN "named" ELSE "default"

\* plot, lines 98-101: which branch runs.
LayoutBranch(g, layout) ==
    IF Truthy(layout) THEN "named"
    ELSE IF get_node_attributes(g, "pos") = {} THEN "default"
    ELSE "skip"

LayoutStep(g, layout) ==
    CASE LayoutBranch(g, layout) = "named" -> apply_layout(g, layout.s)
      [] LayoutBranch(g, layout) = "default" -> apply_layout(g, "random")
      [] OTHER -> {[G |-> g, err |-> NoErr]}

\* ---------------------------------------------- _generate_scatter_trace
BaseSize == 12

Midpoint(c0, c1) == (c0 + c1) \div 2

EdgePair(e) == <<e.u, e.v>>

\* edge_properties is a dict in insertion order: a sequence of
\* [pair, props], props a sequence of [k, vals] in insertion order.
Tracked(edge_properties, pair) ==
    \E q \in 1..Len(edge_properties) : edge_properties[q].pair = pair

\* A variant of lines 193-196 that puts a new value first.
AddValue_Prepend(props, k, v) ==
    IF \E q \in 1..Len(props) : props[q].k = k
    THEN [q \in 1..Len(props) |->
             IF props[q].k = k
             THEN [props[q] EXCEPT !.vals = <<v>> \o @]
             ELSE props[q]]
    ELSE Append(props, [k |-> k, vals |-> <<v>>])

\* Lines 193-196 for one item of an edge's dict.
AddValue(props, k, v) ==
    IF \E q \in 1..Len(props) : props[q].k = k
    THEN [q \in 1..Len(props) |->
             IF props[q].k = k
             THEN [props[q] EXCEPT !.vals = Append(@, v)]
             ELSE props[q]]
    ELSE Append(props, [k |-> k, vals |-> <<v>>])

RECURSIVE AddItems(_, _, _)
AddItems(props, d, m) ==
    IF m > Len(d) THEN props
    ELSE AddItems(AddValue(props, d[m].k, d[m].v), d, m + 1)

\* Lines 181-196: the edge-text part of one pass of the edge loop.
TrackEdge(acc, e, p0, p1) ==
    LET edge_pair == EdgePair(e)
        fresh == ~Tracked(acc.edge_properties, edge_pair)
        entered == IF fresh
                   THEN Append(acc.edge_properties, [pair |-> edge_pair, props |-> <<>>])
                   ELSE acc.edge_properties
    IN [acc EXCEPT
          !.mx = IF fresh THEN Append(@, Midpoint(p0.i, p1.i)) ELSE @,
          !.my = IF fresh THEN Append(@, Midpoint(p0.j, p1.j)) ELSE @,
          !.edge_properties =
              [q \in 1..Len(entered) |->
                  IF entered[q].pair = edge_pair
                  THEN [entered[q] EXCEPT !.props = AddItems(@, e.d, 1)]
                  ELSE entered[q]]]

\* A variant of lines 175-176 without the None that ends the segment.
EdgeCoords_NoGap(c0, c1) == <<IntV(c0), IntV(c1)>>

\* Lines 175-176: what one edge adds to the edge trace.
EdgeCoords(c0, c1) == <<IntV(c0), IntV(c1), NoneV>>

\* Lines 173-196: one pass of the edge loop.
EdgeIter(g, show_edgetext, acc, e) ==
    IF ~HasAttr(g, e.u, "pos") THEN [acc EXCEPT !.err = KeyError("pos", e.u)]
    ELSE IF ~HasAttr(g, e.v, "pos") THEN [acc EXCEPT !.err = KeyError("pos", e.v)]
    ELSE LET p0 == g.data[e.u]["pos"]
             p1 == g.data[e.v]["pos"]
             drawn == [acc EXCEPT !.ex = @ \o EdgeCoords(p0.i, p1.i),
                                  !.ey = @ \o EdgeCoords(p0.j, p1.j)]
         IN IF show_edgetext THEN TrackEdge(drawn, e, p0, p1) ELSE drawn

RECURSIVE EdgeLoop(_, _, _, _)
EdgeLoop(g, show_edgetext, acc, m) ==
    IF m > Len(g.edges) \/ acc.err # NoErr THEN acc
    ELSE EdgeLoop(g, show_edgetext, EdgeIter(g, show_edgetext, acc, g.edges[m]), m + 1)

\* Lines 205-208: the extra hover lines of one node; [text, err].
RECURSIVE NodeText(_, _, _, _, _)
NodeText(g, node, node_text, m, text) ==
    IF m > Len(node_text) THEN [text |-> text, err |-> NoErr]
    ELSE IF ~HasAttr(g, node, node_text[m])
         THEN [text |-> text, err |-> KeyError(node_text[m], node)]
         ELSE NodeText(g, node, node_text, m + 1,
                       text \o "<br></br>" \o node_text[m] \o ": "
                            \o PyStr(g.data[node][node_text[m]]))

\* A variant of lines 212-220 that sizes a node without the attribute as
\* "static" does.
SizeAfter_Fallback(g, node, size_method, size) ==
    IF size_method.t = "list" THEN [seq |-> size_method.items, err |-> NoErr]
    ELSE IF size_method.s = "degree"
         THEN [seq |-> Append(size, IntV(Degree(g, node) + 12)), err |-> NoErr]
    ELSE IF size_method.s # "static" /\ HasAttr(g, node, size_method.s)
         THEN [seq |-> Append(size, g.data[node][size_method.s]), err |-> NoErr]
    ELSE [seq |-> Append(size, IntV(12)), err |-> NoErr]

\* Lines 212-220: marker size after this node; [seq, err].
SizeAfter(g, node, size_method, size) ==
    IF size_method.t = "list" THEN [seq |-> size_method.items, err |-> NoErr]
    ELSE IF size_method.s = "degree"
         THEN [seq |-> Append(size, IntV(Degree(g, node) + BaseSize)), err |-> NoErr]
    ELSE IF size_method.s = "static"
         THEN [seq |-> Append(size, IntV(BaseSize)), err |-> NoErr]
    ELSE IF HasAttr(g, node, size_method.s)
         THEN [seq |-> Append(size, g.data[node][size_method.s]), err |-> NoErr]
    ELSE [seq |-> size, err |-> KeyError(size_method.s, node)]

\* Lines 222-235: marker color after this node.
ColorAfter(g, node, color_method, color) ==
    IF color_method.t = "list" THEN color_method.items
    ELSE IF color_method.s = "degree" THEN Append(color, IntV(Degree(g, node)))
    ELSE IF HasAttr(g, node, color_method.s)
         THEN Append(color, g.data[node][color_method.s])
    ELSE Append(color, StrV(color_method.s))

\* Lines 199-235: one pass of the node loop.  The hover text of the model
\* neither starts nor ends with white space, so strip() returns it as it is.
NodeIter(g, a, acc, node) ==
    LET text == "Node: " \o ToString(node) \o "<br>Degree: " \o ToString(Degree(g, node))
        hover == NodeText(g, node, a.node_text, 1, text)
        sized == SizeAfter(g, node, a.size_method, acc.size)
    IN IF ~HasAttr(g, node, "pos") THEN [acc EXCEPT !.err = KeyError("pos", node)]
       ELSE IF hover.err # NoErr THEN [acc EXCEPT !.err = hover.err]
       ELSE IF sized.err # NoErr THEN [acc EXCEPT !.err = sized.err]
       ELSE [acc EXCEPT !.nx = Append(@, g.data[node]["pos"].i),
                        !.ny = Append(@, g.data[node]["pos"].j),
                        !.text = Append(@, hover.text),
                        !.size = sized.seq,
                        !.color = ColorAfter(g, node, a.color_method, @)]

RECURSIVE NodeLoop(_, _, _, _)
NodeLoop(g, a, acc, m) ==
    IF m > Len(g.nodes) \/ acc.err # NoErr THEN acc
    ELSE NodeLoop(g, a, NodeIter(g, a, acc, g.nodes[m]), m + 1)

\* str() of a list of integers: "[1, 2]".
RECURSIVE PyListItems(_, _)
PyListItems(vals, m) ==
    IF m > Len(vals) THEN ""
    ELSE (IF m > 1 THEN ", " ELSE "") \o ToString(vals[m]) \o PyListItems(vals, m + 1)

PyList(vals) == "[" \o PyListItems(vals, 1) \o "]"

\* Line 240: "\n".join(f"{k}: {v}" for k, v in vals.items()).
RECURSIVE JoinProps(_, _)
JoinProps(props, m) ==
    IF m > Len(props) THEN ""
    ELSE (IF m > 1 THEN "\n" ELSE "") \o props[m].k \o ": " \o PyList(props[m].vals)
         \o JoinProps(props, m + 1)

\* Lines 239-242.
EdgeTextList(edge_properties) ==
    [q \in 1..Len(edge_properties) |-> JoinProps(edge_properties[q].props, 1)]

\* Lines 140-170: the locals before the loops.
EmptyAcc == [ex |-> <<>>, ey |-> <<>>, mx |-> <<>>, my |-> <<>>, edge_properties |-> <<>>,
             nx |-> <<>>, ny |-> <<>>, text |-> <<>>, size |-> <<>>, color |-> <<>>,
             err |-> NoErr]

\* _generate_scatter_trace: [node_trace, edge_trace, middle_node_trace, err].
generate_scatter_trace(g, a) ==
    LET acc == NodeLoop(g, a, EdgeLoop(g, a.show_edgetext, EmptyAcc, 1), 1)
    IN IF acc.err # NoErr
       THEN [node_trace |-> NoneV, edge_trace |-> NoneV, middle_node_trace |-> NoneV,
             err |-> acc.err]
       ELSE [node_trace |-> [x |-> acc.nx, y |-> acc.ny, text |-> acc.text,
                             size |-> acc.size, color |-> acc.color],
             edge_trace |-> [x |-> acc.ex, y |-> acc.ey],
             middle_node_trace |->
                 [x |-> acc.mx, y |-> acc.my,
                  text |-> IF a.show_edgetext THEN EdgeTextList(acc.edge_properties)
                           ELSE <<>>],
             err |-> NoErr]

\* ------------------------------------------------------ _generate_figure
Caption(annotation_text) ==
    [showarrow |-> FALSE, text |-> annotation_text, xref |-> "paper", yref |-> "paper"]

\* Lines 277-290: the arrow of one edge.
Arrow(g, e) ==
    [showarrow |-> TRUE, arrowhead |-> 1,
     ax |-> g.data[e.u]["pos"].i, ay |-> g.data[e.u]["pos"].j, axref |-> "x", ayref |-> "y",
     x |-> g.data[e.v]["pos"].i, y |-> g.data[e.v]["pos"].j, xref |-> "x", yref |-> "y"]

\* Lines 263-290.
Annotations(g, annotation_text) ==
    <<Caption(annotation_text)>>
    \o (IF IsDirected(g) THEN [m \in 1..Len(g.edges) |-> Arrow(g, g.edges[m])] ELSE <<>>)

generate_figure(g, nt, et, mt, a) ==
    [data |-> <<et, nt, mt>>, title |-> a.title,
     annotations |-> Annotations(g, a.annotation_text)]

\* --------------------------------------------------- the inputs (bounded)
\* Three families of calls.  Each one varies the part of the graph and the
\* arguments that one component of plot reads, and keeps the rest plain:
\*   "layout": which nodes hold a position, and the layout argument;
\*   "nodes":  which nodes hold the extra attribute, and the size, color
\*             and hover-text arguments;
\*   "edges":  the edges and their attribute dicts, and show_edgetext.
Families == {"layout", "nodes", "edges"}

\* AttrName is the extra node attribute of the input graphs; its name is
\* also a CSS colour name, so a colour entry holding the name itself is a
\* colour the plotting library accepts.
AttrName == "red"
AttrValue(n) == IntV(10 * n)

Item(k, v) == [k |-> k, v |-> v]
EdgeDicts == {<<>>, <<Item("weight", 1)>>, <<Item("weight", 2), Item("label", 7)>>}

SeqsUpTo(S, m) == UNION {[1..k -> S] : k \in 0..m}

\* The order G.edges(data=True) reports edges in: by source node in node
\* order; an undirected edge once, from its earlier end; the parallel edges
\* of a pair together; one edge per pair unless the graph is a multigraph.
EdgeOrderOK(kind, es) ==
    /\ \A a, b \in 1..Len(es) : a < b => es[a].u <= es[b].u
    /\ kind \in {"Graph", "MultiGraph"} => \A a \in 1..Len(es) : es[a].u <= es[a].v
    /\ \A a, b, c \in 1..Len(es) :
         (a < b /\ b < c /\ es[a].u = es[c].u /\ es[a].v = es[c].v)
            => es[b].v = es[a].v
    /\ ~IsMulti(kind) =>
         \A a, b \in 1..Len(es) : (a # b) => (es[a].u # es[b].u \/ es[a].v # es[b].v)

EdgeLists(n, kind) ==
    {es \in SeqsUpTo([u : 1..n, v : 1..n, d : EdgeDicts], MaxEdges) : EdgeOrderOK(kind, es)}

\* The plain edge lists: no edge, or one edge from the first node to the last.
PlainEdgeLists(n) == {<<>>} \cup {<<[u |-> 1, v |-> n, d |-> <<>>]>> : k \in 1..(IF n > 0 THEN 1 ELSE 0)}

\* Node dicts in which the nodes of P hold a position (from placement) and
\* the nodes of A hold the extra attribute.
NodeData(n, P, placement, A) ==
    [m \in 1..n |->
        [k \in (IF m \in P THEN {"pos"} ELSE {}) \cup (IF m \in A THEN {AttrName} ELSE {}) |->
            IF k = "pos" THEN placement[m] ELSE AttrValue(m)]]

Graph(n, kind, data, es) ==
    [kind |-> kind, nodes |-> [k \in 1..n |-> k], data |-> data, edges |-> es]

PosPatterns(n) ==
    {NodeData(n, P, PlacementA(1..n), {}) : P \in SUBSET (1..n)}
    \cup {NodeData(n, 1..n, PlacementB(1..n), {})}

AttrPatterns(n) ==
    {NodeData(n, P, PlacementA(1..n), A) : P \in {{}, 1..n}, A \in SUBSET (1..n)}

GraphsOf(f) ==
    CASE f = "layout" ->
           UNION {{Graph(n, kind, data, es) :
                     kind \in GraphKinds, data \in PosPatterns(n), es \in PlainEdgeLists(n)} :
                  n \in 0..MaxNodes}
      [] f = "nodes" ->
           UNION {{Graph(n, kind, data, es) :
                     kind \in GraphKinds, data \in AttrPatterns(n), es \in PlainEdgeLists(n)} :
                  n \in 0..MaxNodes}
      [] OTHER ->
           UNION {UNION {{Graph(n, kind, data, es) :
                            data \in {NodeData(n, 1..n, PlacementA(1..n), {})},
                            es \in EdgeLists(n, kind)} :
                         kind \in GraphKinds} :
                  n \in 0..MaxNodes}

\* The arguments of a plot call.  layout is None or a string; size_method and
\* color_method a string or a list; node_text a list of attribute names.
Layouts == {NoneV, StrV(""), StrV("random"), StrV("spring"), StrV("grid")}
SizeMethods == {StrV("degree"), StrV("static"), StrV(AttrName),
                ListV(<<IntV(20)>>), ListV(<<IntV(20), IntV(30)>>)}
ColorMethods == {StrV("degree"), StrV(AttrName), StrV("#888"),
                 ListV(<<IntV(1)>>), ListV(<<IntV(1), IntV(2)>>)}
NodeTexts == {<<>>, <<AttrName>>}

Defaults == [layout |-> NoneV, size_method |-> StrV("degree"), color_method |-> StrV("degree"),
             node_text |-> <<>>, show_edgetext |-> FALSE, title |-> "Graph",
             annotation_text |-> ""]

ArgsOf(f) ==
    CASE f = "layout" -> {[Defaults EXCEPT !.layout = l] : l \in Layouts}
      [] f = "nodes" ->
           {[Defaults EXCEPT !.size_method = sm, !.color_method = cm, !.node_text = nt] :
               sm \in SizeMethods, cm \in ColorMethods, nt \in NodeTexts}
      [] OTHER -> {[Defaults EXCEPT !.show_edgetext = b] : b \in BOOLEAN}

\* ------------------------------------------------------------------ plot
Init ==
    /\ family \in Families
    /\ G \in GraphsOf(family)
    /\ pc = "idle"
    /\ args = NoneV
    /\ branch = "none"
    /\ node_trace = NoneV
    /\ edge_trace = NoneV
    /\ middle_node_trace = NoneV
    /\ fig = NoneV
    /\ err = NoErr

\* plot is called on the caller's graph and runs lines 98-101.
PlotLayout ==
    /\ pc = "idle"
    /\ \E a \in ArgsOf(family) : \E out \in LayoutStep(G, a.layout) :
         /\ args' = a
         /\ branch' = LayoutBranch(G, a.layout)
         /\ G' = out.G
         /\ err' = out.err
         /\ pc' = IF out.err = NoErr THEN "traces" ELSE "raised"
    /\ UNCHANGED <<family, node_trace, edge_trace, middle_node_trace, fig>>

\* Lines 103-111.
PlotTraces ==
    /\ pc = "traces"
    /\ LET out == generate_scatter_trace(G, args)
       IN /\ node_trace' = out.node_trace
          /\ edge_trace' = out.edge_trace
          /\ middle_node_trace' = out.middle_node_trace
          /\ err' = out.err
          /\ pc' = IF out.err = NoErr THEN "figure" ELSE "raised"
    /\ UNCHANGED <<G, family, args, branch, fig>>

\* Lines 113-124.
PlotFigure ==
    /\ pc = "figure"
    /\ fig' = generate_figure(G, node_trace, edge_trace, middle_node_trace, args)
    /\ pc' = "returned"
    /\ UNCHANGED <<G, family, args, branch, node_trace, edge_trace, middle_node_trace, err>>

\* The caller has the figure or the exception; the locals of the call are
\* gone, and the graph stays with the caller for a later call.
Release ==
    /\ pc \in {"returned", "raised"}
    /\ pc' = "idle"
    /\ args' = NoneV
    /\ branch' = "none"
    /\ node_trace' = NoneV
    /\ edge_trace' = NoneV
    /\ middle_node_trace' = NoneV
    /\ fig' = NoneV
    /\ err' = NoErr
    /\ UNCHANGED <<G, family>>

Next == PlotLayout \/ PlotTraces \/ PlotFigure \/ Release

Spec == Init /\ [][Next]_vars

\* ================================================================ claims
N == Len(G.nodes)
E == Len(G.edges)
Built == pc \in {"figure", "returned"}
AllPositioned(g) == \A n \in Range(g.nodes) : HasAttr(g, n, "pos")
PosOf(g) == [n \in Range(g.nodes) |-> IF HasAttr(g, n, "pos") THEN g.data[n]["pos"] ELSE NoneV]
IsList(m) == m.t = "list"
SizeByAttr(a) == ~IsList(a.size_method) /\ a.size_method.s \notin {"degree", "static"}
ColorByString(a) == ~IsList(a.color_method) /\ a.color_method.s # "degree"
Lacking(g, name) == {n \in Range(g.nodes) : ~HasAttr(g, n, name)}
Holding(g, name) == {n \in Range(g.nodes) : HasAttr(g, n, name)}
First(S) == CHOOSE n \in S : \A m \in S : n <= m

\* C1 as stated: every built node trace has N entries in each of x, y, text,
\* marker size and marker color, and the edge trace 3E entries in x and in y,
\* whatever size_method and color_method are (a literal list included).
C1_Original ==
    Built =>
      /\ Len(node_trace.x) = N /\ Len(node_trace.y) = N /\ Len(node_trace.text) = N
      /\ Len(node_trace.size) = N /\ Len(node_trace.color) = N
      /\ Len(edge_trace.x) = 3 * E /\ Len(edge_trace.y) = 3 * E

\* C1 (amended): x, y and text have N entries and the edge trace 3E entries in
\* x and in y; marker size (color) has N entries when size_method
\* (color_method) is a string, and is the literal list itself, whatever its
\* length, when it is a list and the graph has a node.
C1_TraceLengths ==
    Built =>
      /\ Len(node_trace.x) = N /\ Len(node_trace.y) = N /\ Len(node_trace.text) = N
      /\ Len(edge_trace.x) = 3 * E /\ Len(edge_trace.y) = 3 * E
      /\ \A m \in 1..E : edge_trace.x[3 * m].t = "None" /\ edge_trace.y[3 * m].t = "None"
      /\ IF IsList(args.size_method) /\ N > 0
         THEN node_trace.size = args.size_method.items
         ELSE Len(node_trace.size) = N
      /\ IF IsList(args.color_method) /\ N > 0
         THEN node_trace.color = args.color_method.items
         ELSE Len(node_trace.color) = N

C1_Witness ==
    /\ pc = "returned" /\ N = 2 /\ E = 1
    /\ IsList(args.size_method) /\ Len(args.size_method.items) = 2
    /\ ~IsList(args.color_method)

\* C2 as stated: after the layout step of plot, every node of the graph holds
\* a 'pos', also when only some nodes held one and no layout name was given.
C2_AllPositioned == (pc = "traces") => AllPositioned(G)

\* C3: a no-layout plot call on a graph that holds positions changes no
\* node's position, in any of its steps and however many such calls are made.
C3_IdempotentSkip ==
    [][(/\ ~Truthy(IF pc = "idle" THEN args'.layout ELSE args.layout)
        /\ get_node_attributes(G, "pos") # {})
       => PosOf(G') = PosOf(G)]_vars

\* A later no-layout call has skipped on positions that an earlier no-layout
\* call drew (the "nodes" family starts without positions or with placement A).
C3_Witness ==
    /\ family = "nodes" /\ pc = "returned" /\ branch = "skip" /\ N = 2
    /\ PosOf(G) = PlacementB(1..2)

\* C4 as stated: with show_edgetext the edge-hover trace has one marker per
\* unordered node pair that has an edge, also in a directed graph with edges
\* in both directions; without show_edgetext it is empty.
C4_OnePerUnorderedPair ==
    Built =>
      LET pairs == {{G.edges[m].u, G.edges[m].v} : m \in 1..E}
          want == IF args.show_edgetext THEN Cardinality(pairs) ELSE 0
      IN Len(middle_node_trace.x) = want /\ Len(middle_node_trace.y) = want

\* C5: the figure has the caption annotation first; then, for a directed
\* graph, one arrow per edge (parallel edges included) from the source
\* node's position to the target node's, and for an undirected graph no
\* arrow; the edge trace of the figure is built from the edges and the
\* positions alone, the same for both.
C5_Annotations ==
    (pc = "returned") =>
      LET an == fig.annotations
          arrows == {m \in 1..Len(an) : an[m].showarrow}
          directed == G.kind \in {"DiGraph", "MultiDiGraph"}
      IN /\ Len(an) >= 1 /\ ~an[1].showarrow /\ an[1].text = args.annotation_text
         /\ Cardinality(arrows) = (IF directed THEN E ELSE 0)
         /\ Len(an) = 1 + Cardinality(arrows)
         /\ directed => \A m \in 1..E :
              /\ an[m + 1].ax = G.data[G.edges[m].u]["pos"].i
              /\ an[m + 1].ay = G.data[G.edges[m].u]["pos"].j
              /\ an[m + 1].x = G.data[G.edges[m].v]["pos"].i
              /\ an[m + 1].y = G.data[G.edges[m].v]["pos"].j
         /\ fig.data[1] = edge_trace
         /\ Len(edge_trace.x) = 3 * E
         /\ \A m \in 1..E :
              /\ edge_trace.x[3 * m - 2] = IntV(G.data[G.edges[m].u]["pos"].i)
              /\ edge_trace.x[3 * m - 1] = IntV(G.data[G.edges[m].v]["pos"].i)
              /\ edge_trace.y[3 * m - 2] = IntV(G.data[G.edges[m].u]["pos"].j)
              /\ edge_trace.y[3 * m - 1] = IntV(G.data[G.edges[m].v]["pos"].j)

C5_Witness ==
    /\ pc = "returned" /\ G.kind = "MultiDiGraph" /\ E = 2
    /\ G.edges[1].u = G.edges[2].u /\ G.edges[1].v = G.edges[2].v
    /\ G.edges[1].u # G.edges[1].v

C7_OnlyPosWritten ==
    [][/\ G'.kind = G.kind /\ G'.nodes = G.nodes /\ G'.edges = G.edges
       /\ DOMAIN G'.data = DOMAIN G.data
       /\ \A n \in DOMAIN G.data :
            /\ DOMAIN G'.data[n] \ {"pos"} = DOMAIN G.data[n] \ {"pos"}
            /\ \A k \in DOMAIN G.data[n] \ {"pos"} : G'.data[n][k] = G.data[n][k]
       /\ (pc # "idle") => G' = G
       /\ (pc = "idle" /\ branch' = "skip") => G' = G]_vars

C7_Witness ==
    /\ family = "nodes" /\ pc = "returned" /\ branch = "default" /\ N = 2 /\ E = 1
    /\ Holding(G, AttrName) = {2} /\ AllPositioned(G)

\* C8: a call with a non-empty layout name outside the seven recognized names
\* ends in a KeyError for that name, builds no trace and no figure, and
\* leaves the graph, the positions it had included, as it was.
C8_UnknownLayoutFails ==
    [][(pc = "idle" /\ Truthy(args'.layout) /\ args'.layout.s \notin
          {"random", "circular", "kamada", "planar", "spring", "spectral", "spiral"})
       => /\ pc' = "raised" /\ err' = KeyError(args'.layout.s, 0)
          /\ G' = G /\ fig' = NoneV /\ node_trace' = NoneV]_vars

C8_Witness ==
    /\ pc = "raised" /\ args.layout = StrV("grid") /\ err = KeyError("grid", 0)
    /\ N = 2 /\ get_node_attributes(G, "pos") = {1}

\* C9 as stated: for a color_method string other than 'degree', if the string
\* is an attribute of a node then every node's color entry is its value of
\* the attribute, and otherwise every node's entry is the string itself.
C9_UniformColor ==
    (Built /\ ColorByString(args)) =>
      LET name == args.color_method.s
      IN IF Holding(G, name) # {}
         THEN \A n \in Range(G.nodes) :
                HasAttr(G, n, name) /\ node_trace.color[n] = G.data[n][name]
         ELSE \A n \in Range(G.nodes) : node_trace.color[n] = StrV(name)

\* The edges that are the first of their (source, target) pair, and the one
\* among them that the k-th hover marker stands for.
SamePair(m, q) == G.edges[m].u = G.edges[q].u /\ G.edges[m].v = G.edges[q].v
FirstSeen == {m \in 1..E : \A q \in 1..(m - 1) : ~SamePair(m, q)}
MarkerEdge(k) == CHOOSE m \in FirstSeen : Cardinality({q \in FirstSeen : q <= m}) = k

\* The attribute dicts of the edges of edge m's pair, from edge q on, in
\* edge order; and their items, in that order.
RECURSIVE DictsOfPair(_, _)
DictsOfPair(m, q) ==
    IF q > E THEN <<>>
    ELSE (IF SamePair(m, q) THEN <<G.edges[q].d>> ELSE <<>>) \o DictsOfPair(m, q + 1)

RECURSIVE Flatten(_, _)
Flatten(ds, q) == IF q > Len(ds) THEN <<>> ELSE ds[q] \o Flatten(ds, q + 1)

RECURSIVE ValuesOf(_, _, _)
ValuesOf(items, key, q) ==
    IF q > Len(items) THEN <<>>
    ELSE (IF items[q].k = key THEN <<items[q].v>> ELSE <<>>) \o ValuesOf(items, key, q + 1)

\* One line "key: [values]" per key, at the key's first item, joined by "\n".
RECURSIVE HoverLines(_, _)
HoverLines(items, q) ==
    IF q > Len(items) THEN ""
    ELSE IF \E r \in 1..(q - 1) : items[r].k = items[q].k THEN HoverLines(items, q + 1)
    ELSE (IF q > 1 THEN "\n" ELSE "") \o items[q].k \o ": "
         \o PyList(ValuesOf(items, items[q].k, 1)) \o HoverLines(items, q + 1)

\* C10: with show_edgetext, the hover texts are as many as the markers, one
\* per (source, target) pair in the order the pairs are first seen; marker k
\* is the midpoint of the first edge of its pair and text k lists, key by
\* key, the values of the pair's edges in edge order: two parallel edges
\* {weight: 1} and {weight: 2, label: 7} give "weight: [1, 2]" and
\* "label: [7]".
C10_HoverText ==
    (Built /\ args.show_edgetext) =>
      /\ Len(middle_node_trace.text) = Len(middle_node_trace.x)
      /\ Len(middle_node_trace.y) = Len(middle_node_trace.x)
      /\ Len(middle_node_trace.x) = Cardinality(FirstSeen)
      /\ \A k \in 1..Len(middle_node_trace.x) :
           LET m == MarkerEdge(k)
               p0 == G.data[G.edges[m].u]["pos"]
               p1 == G.data[G.edges[m].v]["pos"]
               ds == DictsOfPair(m, 1)
           IN /\ 2 * middle_node_trace.x[k] = p0.i + p1.i
              /\ 2 * middle_node_trace.y[k] = p0.j + p1.j
              /\ middle_node_trace.text[k] = HoverLines(Flatten(ds, 1), 1)
              /\ (ds = <<(<<Item("weight", 1)>>), <<Item("weight", 2), Item("label", 7)>>>>)
                    => middle_node_trace.text[k] = "weight: [1, 2]\nlabel: [7]"

C10_Witness ==
    /\ pc = "returned" /\ args.show_edgetext /\ G.kind = "MultiGraph" /\ E = 2
    /\ middle_node_trace.x = <<3>>
    /\ middle_node_trace.text = <<"weight: [1, 2]\nlabel: [7]">>
====
